---- MODULE Spec2Model ----
(***************************************************************************)
(* Spotted: the report ledger (public.reports), the violation catalog,     *)
(* the row-level policies, the user_stats view and the client library      *)
(* (createReport, getUserReports, getReportById, getUserStats,             *)
(* calculateUserStats, checkDuplicate, uploadPhoto, updateProfile), the    *)
(* provisioning trigger handle_new_user and check_duplicate_report, and    *)
(* the Home page (page.js): sign-in and sign-out, loadUserData, the        *)
(* capture / select / review screens and handleSubmit, each await of an    *)
(* async function being a step of its own.                                 *)
(*                                                                         *)
(* Encoding.  A nullable column holds a set: {} is SQL NULL, {v} is the    *)
(* value v.  Money in a decimal(10,2) column is an integer number of       *)
(* cents; a JavaScript number on its way to such a column is an integer    *)
(* number of 1/10000 units (E4), the column coercion rounds it to cents.   *)
(* A percentage is an integer number of tenths of a percent.  Time is in   *)
(* minutes; Date.now() as used for upload names is in milliseconds.  A     *)
(* coordinate is an integer number of 1/10000 degree.                      *)
(***************************************************************************)
EXTENDS Integers, FiniteSets, Sequences, TLC

VARIABLES
    authUsers,   \* auth.users: ids of the authenticated principals
    profiles,    \* public.profiles: set of rows, the Identity rows
    catalog,     \* public.violation_types: kind id -> fine
    reports,     \* public.reports: set of rows
    nextId,      \* the next generated report id
    now,         \* the database / client clock, minutes
    catalogEdits,\* number of fine changes made by the table owner so far
    inserted,    \* history: report id -> how and as what the row was inserted
    nowMs,       \* Date.now() of the clients, milliseconds
    objects,     \* bucket violation-photos: object path -> number of the upload
    uploads,     \* history: the calls of uploadPhoto, in order
    session,     \* the session of the Supabase client in the browser
    ui,          \* the React state of Home (page.js)
    tasks,       \* the async calls of page.js that are in flight
    uiHist       \* history: captures, sign-ins, and what the page submitted

uiVars == <<session, ui, tasks, uiHist>>

vars == <<authUsers, profiles, catalog, reports, nextId, now, catalogEdits, inserted,
          nowMs, objects, uploads, uiVars>>

-----------------------------------------------------------------------------
(* Bounds of the model *)

MaxReports == 2
MaxAccessReports == 2
MaxStatsReports == 3
MaxCatalogEdits == 1
MaxDupReports == 2
MaxClock == 121
MaxIdentityReports == 3
MaxUploads == 2
MaxMs == 1
MaxSignIns == 1
MaxCaptures == 2
MaxUiReports == 2

(* Program constants *)

FallbackFine == 115
DefaultLimit == 50
StatsLimit == 1000

Users == {"alice", "bob"}
Anon == "anon"
Principals == Users \cup {Anon}

\* two of the six seeded kinds, and one id that is in no catalog row
SeedCatalog == [k \in {"hydrant", "bike"} |-> IF k = "bike" THEN 175 ELSE 115]
KindInputs == {"hydrant", "bike", "ghost"}
FineValues == {0, 115, 175}
\* the catalog row whose fine the table owner edits in this model
EditKinds == {"bike"}

NULL == {}
Some(v) == {v}

StatusValues == {"pending", "approved", "rejected"}

-----------------------------------------------------------------------------
(* Numbers *)

\* round(n / d) to the nearest integer, halves away from zero (PostgreSQL
\* numeric rounding), d > 0
RoundDiv(n, d) ==
    IF n >= 0 THEN (2 * n + d) \div (2 * d)
              ELSE 0 - ((2 * (0 - n) + d) \div (2 * d))

\* Math.round: nearest integer, halves toward +infinity, d > 0
MathRoundDiv(n, d) == (2 * n + d) \div (2 * d)

\* fineAmount * 0.10 in JavaScript, in E4 units (the double's error is far
\* below 1/10000 for every 32-bit fine)
JsTimesTenth(fine) == fine * 1000

\* coercion of a JSON number (E4) to decimal(10,2): cents
ToDecimal2(e4) == RoundDiv(e4, 100)

\* calculate_reward(fine) = round(fine * 0.10, 2), in cents
calculate_reward(fine) == RoundDiv(fine * 1000, 100)

-----------------------------------------------------------------------------
(* Strings *)

\* String.prototype.toUpperCase on the plate strings of the model
ToUpperCase(s) ==
    CASE s = "abc-1234" -> "ABC-1234"
      [] s = "xyz-5678" -> "XYZ-5678"
      [] OTHER -> s

\* plateNumber?.toUpperCase()
UpperOpt(p) == {ToUpperCase(s) : s \in p}

-----------------------------------------------------------------------------
(* public.reports: columns, defaults, constraints, policies *)

\* auth.uid(): NULL for a request without a session
AuthUid(caller) == IF caller \in authUsers THEN Some(caller) ELSE NULL

Has(payload, c) == c \in DOMAIN payload

\* the row an insert payload produces: omitted columns take their defaults
NewRow(payload, id) ==
    [ id             |-> id,
      user_id        |-> payload.user_id,
      violation_type |-> payload.violation_type,
      latitude       |-> IF Has(payload, "latitude") THEN payload.latitude ELSE NULL,
      longitude      |-> IF Has(payload, "longitude") THEN payload.longitude ELSE NULL,
      photo_url      |-> IF Has(payload, "photo_url") THEN payload.photo_url ELSE NULL,
      plate_number   |-> IF Has(payload, "plate_number") THEN payload.plate_number ELSE NULL,
      status         |-> IF Has(payload, "status") THEN payload.status ELSE Some("pending"),
      fine_amount    |-> IF Has(payload, "fine_amount") THEN payload.fine_amount ELSE NULL,
      reward_amount  |-> IF Has(payload, "reward_amount")
                            THEN {ToDecimal2(x) : x \in payload.reward_amount} ELSE NULL,
      paid_out       |-> IF Has(payload, "paid_out") THEN payload.paid_out ELSE FALSE,
      paid_out_at    |-> IF Has(payload, "paid_out_at") THEN payload.paid_out_at ELSE NULL,
      reported_at    |-> IF Has(payload, "reported_at") THEN payload.reported_at ELSE now ]

\* the row an update patch produces from row r
Patched(r, patch) ==
    [ id             |-> r.id,
      user_id        |-> IF Has(patch, "user_id") THEN patch.user_id ELSE r.user_id,
      violation_type |-> IF Has(patch, "violation_type") THEN patch.violation_type
                                                        ELSE r.violation_type,
      latitude       |-> IF Has(patch, "latitude") THEN patch.latitude ELSE r.latitude,
      longitude      |-> IF Has(patch, "longitude") THEN patch.longitude ELSE r.longitude,
      photo_url      |-> IF Has(patch, "photo_url") THEN patch.photo_url ELSE r.photo_url,
      plate_number   |-> IF Has(patch, "plate_number") THEN patch.plate_number
                                                      ELSE r.plate_number,
      status         |-> IF Has(patch, "status") THEN patch.status ELSE r.status,
      fine_amount    |-> IF Has(patch, "fine_amount") THEN patch.fine_amount ELSE r.fine_amount,
      reward_amount  |-> IF Has(patch, "reward_amount")
                            THEN {ToDecimal2(x) : x \in patch.reward_amount}
                            ELSE r.reward_amount,
      paid_out       |-> IF Has(patch, "paid_out") THEN patch.paid_out ELSE r.paid_out,
      paid_out_at    |-> IF Has(patch, "paid_out_at") THEN patch.paid_out_at ELSE r.paid_out_at,
      reported_at    |-> IF Has(patch, "reported_at") THEN patch.reported_at ELSE r.reported_at ]

\* check (status in ('pending','approved','rejected')): a CHECK constraint
\* passes unless it evaluates to false, and status is nullable
StatusCheck(r) == r.status = NULL \/ r.status \subseteq StatusValues

\* the ids held by the rows of public.profiles
ProfileIds == {p.id : p \in profiles}

\* user_id references profiles(id), violation_type references violation_types(id)
ForeignKeys(r) == r.user_id \in ProfileIds /\ r.violation_type \in DOMAIN catalog

\* the constraints with a unique index on (plate_number, violation_type)
ConstraintsUniquePlate(r) ==
    /\ StatusCheck(r) /\ ForeignKeys(r)
    /\ \A x \in reports :
          x.id # r.id =>
             \/ x.plate_number = NULL
             \/ x.plate_number # r.plate_number
             \/ x.violation_type # r.violation_type

Constraints(r) == StatusCheck(r) /\ ForeignKeys(r)

\* a select policy that admits every row
SelectPolicyAllRows(caller, r) == TRUE

\* "Users can view own reports": using (auth.uid() = user_id)
SelectPolicy(caller, r) == AuthUid(caller) = Some(r.user_id)

\* "Users can create own reports": with check (auth.uid() = user_id)
InsertPolicy(caller, r) == AuthUid(caller) = Some(r.user_id)

\* the update policy without its status condition
UpdatePolicyAnyStatus(caller, r) == AuthUid(caller) = Some(r.user_id)

\* "Users can update own pending reports":
\* using (auth.uid() = user_id and status = 'pending'); with no WITH CHECK
\* clause the same expression is applied to the new row
UpdatePolicy(caller, r) == AuthUid(caller) = Some(r.user_id) /\ r.status = Some("pending")

\* rows of public.reports a query of the caller sees
Visible(caller) == {r \in reports : SelectPolicy(caller, r)}

InsertAccepted(caller, row) == InsertPolicy(caller, row) /\ Constraints(row)

\* the table after `insert payload` by caller: unchanged when refused
DbInsert(caller, payload) ==
    LET row == NewRow(payload, nextId)
    IN  IF InsertAccepted(caller, row) THEN reports \cup {row} ELSE reports

\* the table after `update ... set patch where id = id` by caller: rows the
\* policies hide are not touched; a new row failing the policy or a
\* constraint aborts the statement
DbUpdate(caller, id, patch) ==
    LET targets == {r \in Visible(caller) : r.id = id /\ UpdatePolicy(caller, r)}
        ok == \A r \in targets :
                 UpdatePolicy(caller, Patched(r, patch)) /\ Constraints(Patched(r, patch))
    IN  IF ok THEN (reports \ targets) \cup {Patched(r, patch) : r \in targets}
              ELSE reports

-----------------------------------------------------------------------------
(* Client library: reads *)

\* the first n rows of S in `order by reported_at desc`
TopN(S, n) ==
    IF Cardinality(S) <= n THEN S
    ELSE CHOOSE T \in SUBSET S :
            /\ Cardinality(T) = n
            /\ \A t \in T, s \in S \ T : t.reported_at >= s.reported_at

\* getUserReports(userId, limit): from('reports').eq('user_id', userId)
GetUserReports(caller, userId, limit) ==
    TopN({r \in Visible(caller) : r.user_id = userId}, limit)

\* getReportById(reportId): from('reports').eq('id', reportId)
GetReportById(caller, reportId) == {r \in Visible(caller) : r.id = reportId}

\* a window of three hours
ThreeHours == 3 * 60

\* 2 * 60 * 60 * 1000 ms, interval '2 hours'
TwoHours == 2 * 60

\* checkDuplicate: the rows the query selects (before limit(1))
CheckDuplicateRows(caller, plateNumber, latitude, longitude, violationType) ==
    {r \in Visible(caller) :
        /\ r.plate_number # NULL
        /\ r.plate_number = UpperOpt(plateNumber)
        /\ r.violation_type = violationType
        /\ r.reported_at >= now - TwoHours}

checkDuplicate(caller, plateNumber, latitude, longitude, violationType) ==
    CheckDuplicateRows(caller, plateNumber, latitude, longitude, violationType) # {}

-----------------------------------------------------------------------------
(* check_duplicate_report *)

\* 0.001 degree; a coordinate is an integer number of 1/10000 degree, which
\* decimal(10,8) and decimal(11,8) hold exactly
CoordTolerance == 10

Abs(x) == IF x < 0 THEN 0 - x ELSE x

\* abs(c - p) < 0.001 as a where-condition: NULL, hence not true, when the
\* column or the parameter is NULL
Near(c, p) == c # NULL /\ p # NULL /\ \A x \in c, y \in p : Abs(x - y) < CoordTolerance

\* the rows check_duplicate_report counts.  The function is plpgsql without
\* security definer, so the policies of the caller apply to its query
DuplicateReportRows(caller, p_plate, p_lat, p_lng, p_violation_type) ==
    {r \in Visible(caller) :
        /\ r.plate_number # NULL /\ p_plate # NULL
        /\ r.plate_number = p_plate
        /\ r.violation_type = p_violation_type
        /\ r.reported_at > now - TwoHours
        /\ Near(r.latitude, p_lat)
        /\ Near(r.longitude, p_lng)}

\* return duplicate_count > 0
check_duplicate_report(caller, p_plate, p_lat, p_lng, p_violation_type) ==
    Cardinality(DuplicateReportRows(caller, p_plate, p_lat, p_lng, p_violation_type)) > 0

-----------------------------------------------------------------------------
(* The user_stats view *)

\* profiles p join reports r on p.id = r.user_id, for one p: a profile
\* without reports yields no row
InnerJoin(p) == {[p |-> p, r |-> Some(x)] : x \in {r \in reports : r.user_id = p}}

\* profiles p left join reports r on p.id = r.user_id, for one p.id: a
\* profile without reports yields one row whose r columns are all NULL
LeftJoin(p) ==
    LET rs == {r \in reports : r.user_id = p}
    IN  IF rs = {} THEN {[p |-> p, r |-> NULL]}
                   ELSE {[p |-> p, r |-> Some(x)] : x \in rs}

\* count(*): every joined row
CountStar(J) == Cardinality(J)

\* count(r.id): joined rows whose r.id is not NULL
CountId(J) == Cardinality({j \in J : j.r # NULL})

\* count(case when r.status = s then 1 end)
CountStatus(J, s) == Cardinality({j \in J : \E x \in j.r : x.status = Some(s)})

\* case when r.status = s then r.reward_amount else 0 end, for one joined row
CaseReward(j, s) ==
    IF \E x \in j.r : x.status = Some(s)
       THEN UNION {x.reward_amount : x \in j.r}
       ELSE Some(0)

RECURSIVE SumCase(_, _)
\* sum(case ...) over the joined rows: NULL inputs are skipped, and the sum
\* of no non-NULL input is NULL
SumCase(J, s) ==
    IF J = {} THEN NULL
    ELSE LET j == CHOOSE x \in J : TRUE
             rest == SumCase(J \ {j}, s)
             v == CaseReward(j, s)
         IN  IF v = NULL THEN rest
             ELSE IF rest = NULL THEN v
             ELSE {a + b : a \in v, b \in rest}

\* coalesce(x, 0)
Coalesce0(x) == IF x = NULL THEN 0 ELSE CHOOSE v \in x : TRUE

\* a::decimal / b * 100 rounded to one decimal, in tenths of a percent.  The
\* numeric quotient keeps at least 16 significant digits; six decimals are
\* kept here, which gives the same tenth for every total below 1000
RoundedRate(a, b) == RoundDiv(RoundDiv(a * 1000000, b) * 100, 100000)

\* one row of user_stats (group by p.id)
UserStatsRow(p) ==
    LET J == LeftJoin(p)
    IN  [ user_id          |-> p,
          total_reports    |-> CountId(J),
          approved_reports |-> CountStatus(J, "approved"),
          pending_reports  |-> CountStatus(J, "pending"),
          rejected_reports |-> CountStatus(J, "rejected"),
          total_earned     |-> Coalesce0(SumCase(J, "approved")),
          pending_earnings |-> Coalesce0(SumCase(J, "pending")),
          success_rate     |-> IF CountId(J) > 0
                                  THEN RoundedRate(CountStatus(J, "approved"), CountId(J))
                                  ELSE 0 ]

\* the rows of user_stats a query of the caller sees.  The view is created
\* without security_invoker, so it reads profiles and reports with its
\* owner's rights and the row policies of the caller are not applied: one
\* row for each p.id that has joined rows (group by p.id)
UserStatsVisible(caller) ==
    {UserStatsRow(p) : p \in {q \in ProfileIds : LeftJoin(q) # {}}}

\* getUserStats(userId): from('user_stats').eq('user_id', userId)
GetUserStats(caller, userId) == {s \in UserStatsVisible(caller) : s.user_id = userId}

-----------------------------------------------------------------------------
(* calculateUserStats *)

RECURSIVE ReduceReward(_)
\* rows.reduce((sum, r) => sum + (r.reward_amount || 0), 0), in cents
ReduceReward(rows) ==
    IF rows = {} THEN 0
    ELSE LET r == CHOOSE x \in rows : TRUE
         IN  Coalesce0(r.reward_amount) + ReduceReward(rows \ {r})

\* Math.round((approved / total) * 100): whole percent, in tenths
JsSuccessRate(approved, total) == MathRoundDiv(approved * 100, total) * 10

calculateUserStats(caller, userId) ==
    LET rows == GetUserReports(caller, userId, StatsLimit)
        approved == {r \in rows : r.status = Some("approved")}
        pending == {r \in rows : r.status = Some("pending")}
        rejected == {r \in rows : r.status = Some("rejected")}
    IN  [ total_reports    |-> Cardinality(rows),
          approved_reports |-> Cardinality(approved),
          pending_reports  |-> Cardinality(pending),
          rejected_reports |-> Cardinality(rejected),
          total_earned     |-> ReduceReward(approved),
          pending_earnings |-> ReduceReward(pending),
          success_rate     |-> IF Cardinality(rows) > 0
                                  THEN JsSuccessRate(Cardinality(approved), Cardinality(rows))
                                  ELSE 0 ]

-----------------------------------------------------------------------------
(* Client library: createReport *)

\* violationData?.fine || 115
FineAmount(violationType) ==
    IF violationType \in DOMAIN catalog /\ catalog[violationType] # 0
       THEN catalog[violationType]
       ELSE FallbackFine

\* the object createReport passes to insert()
CreateReportPayload(caller, violationType, latitude, longitude, plateNumber) ==
    [ user_id        |-> caller,
      violation_type |-> violationType,
      latitude       |-> latitude,
      longitude      |-> longitude,
      plate_number   |-> UpperOpt(plateNumber),
      fine_amount    |-> Some(FineAmount(violationType)),
      reward_amount  |-> Some(JsTimesTenth(FineAmount(violationType))),
      status         |-> Some("pending") ]

\* the fine of the kind in the catalog, NULL when the kind is not there
CatalogFine(violationType) ==
    IF violationType \in DOMAIN catalog THEN Some(catalog[violationType]) ELSE NULL

-----------------------------------------------------------------------------
(* Provisioning of profiles *)

\* the row handle_new_user inserts: (id, email, full_name); the email is
\* that of the auth.users row and is left out
ProfileRow(id, fullName) == [id |-> id, full_name |-> fullName]

\* a table without a key on id
NoPrimaryKey(table, row) == TRUE

\* profiles.id is the primary key
PrimaryKey(table, row) == \A p \in table : p.id # row.id

\* handle_new_user(): insert into public.profiles; NULL when the insert
\* raises (a fault of the statement, or the key), else the table after it
handle_new_user(id, fullName, fault) ==
    LET row == ProfileRow(id, fullName)
    IN  IF fault \/ ~PrimaryKey(profiles, row)
           THEN NULL
           ELSE Some(profiles \cup {row})

\* the row an update of profiles produces from row p
PatchedProfile(p, updates) ==
    [ id        |-> IF Has(updates, "id") THEN updates.id ELSE p.id,
      full_name |-> IF Has(updates, "full_name") THEN updates.full_name ELSE p.full_name ]

\* "Users can update own profile": using (auth.uid() = id), which is also
\* the check of the new row
ProfileUpdatePolicy(caller, p) == AuthUid(caller) = Some(p.id)

\* the table after from('profiles').update(updates).eq('id', userId) by the
\* caller.  The new row must pass the policy, the key, the reference to
\* auth.users, and no report may be left referring to the old id
DbProfileUpdate(caller, userId, updates) ==
    LET targets == {p \in profiles : p.id = userId /\ ProfileUpdatePolicy(caller, p)}
        ok == \A p \in targets :
                 LET q == PatchedProfile(p, updates)
                 IN  /\ ProfileUpdatePolicy(caller, q)
                     /\ PrimaryKey(profiles \ {p}, q)
                     /\ q.id \in authUsers
                     /\ q.id # p.id => \A r \in reports : r.user_id # p.id
    IN  IF ok THEN (profiles \ targets) \cup {PatchedProfile(p, updates) : p \in targets}
              ELSE profiles

\* a trigger function that catches the exception and returns new
TriggerSwallows(res) == FALSE

\* after insert ... for each row execute function: the exception of the
\* trigger function aborts the statement that fired it
TriggerAborts(res) == res = NULL

\* a reference without on delete cascade would leave the rows
NoCascade(u) == reports

\* reports.user_id ... on delete cascade: the rows of a deleted profile go
OnDeleteCascade(u) == {r \in reports : r.user_id # u}

-----------------------------------------------------------------------------
(* Client library: uploadPhoto *)

\* file.name.split('.').pop(): the part after the last dot, the whole name
\* when it has no dot
FileExt(name) ==
    CASE name = "curb.jpg" -> "jpg"
      [] name = "lane.jpg" -> "jpg"
      [] name = "scan.final.png" -> "png"
      [] OTHER -> name

\* `${userId}/${Date.now()}.${fileExt}`, as <<folder, name, extension>>
UploadPath(userId, ms, name) == <<userId, ms, FileExt(name)>>

-----------------------------------------------------------------------------
(* page.js: the state of Home *)

\* the useState initial values: user, reports, stats, screen,
\* selectedViolation, uploadedFile, plateNumber, isSubmitting, showSuccess,
\* location
InitialUi ==
    [ user              |-> NULL,
      reports           |-> {},
      stats             |-> NULL,
      screen            |-> "home",
      selectedViolation |-> NULL,
      uploadedFile      |-> NULL,
      plateNumber       |-> "",
      isSubmitting      |-> FALSE,
      showSuccess       |-> FALSE,
      location          |-> NULL ]

-----------------------------------------------------------------------------
(* Actions *)

Init ==
    /\ authUsers = {}
    /\ profiles = {}
    /\ catalog = SeedCatalog
    /\ reports = {}
    /\ nextId = 1
    /\ now = 0
    /\ catalogEdits = 0
    /\ inserted = <<>>
    /\ nowMs = 0
    /\ objects = <<>>
    /\ uploads = <<>>
    /\ session = NULL
    /\ ui = InitialUi
    /\ tasks = {}
    /\ uiHist = [captures |-> 0, capturePos |-> NULL, signIns |-> 0, signedOut |-> FALSE,
                 submitted |-> <<>>]

\* signUp(email, password, fullName): insert into auth.users; the trigger
\* on_auth_user_created runs handle_new_user in the same transaction, and
\* an exception it raises rolls the insert into auth.users back
SignUpWith(u, fullName, fault) ==
    /\ u \notin authUsers
    /\ LET res == handle_new_user(u, fullName, fault)
       IN  IF res = NULL
              THEN IF TriggerAborts(res)
                      THEN UNCHANGED <<authUsers, profiles>>
                      ELSE authUsers' = authUsers \cup {u} /\ UNCHANGED profiles
              ELSE /\ authUsers' = authUsers \cup {u}
                   /\ profiles' = UNION res
    /\ UNCHANGED <<catalog, reports, nextId, now, catalogEdits, inserted, nowMs,
                   objects, uploads, uiVars>>

\* a signUp whose provisioning meets no fault
SignUp(u) == SignUpWith(u, "Ann", FALSE)

\* handle_new_user run once more for a principal that is already there
RerunProvisioning(u, fullName) ==
    /\ u \in authUsers
    /\ LET res == handle_new_user(u, fullName, FALSE)
       IN  IF res = NULL THEN UNCHANGED profiles ELSE profiles' = UNION res
    /\ UNCHANGED <<authUsers, catalog, reports, nextId, now, catalogEdits, inserted,
                   nowMs, objects, uploads, uiVars>>

\* updateProfile(userId, updates)
UpdateProfile(caller, userId, updates) ==
    /\ caller \in authUsers
    /\ profiles' = DbProfileUpdate(caller, userId, updates)
    /\ UNCHANGED <<authUsers, catalog, reports, nextId, now, catalogEdits, inserted,
                   nowMs, objects, uploads, uiVars>>

\* delete from auth.users: profiles.id references auth.users on delete
\* cascade, and reports.user_id references profiles(id) on delete cascade
DeleteUser(u) ==
    /\ u \in authUsers
    /\ authUsers' = authUsers \ {u}
    /\ profiles' = {p \in profiles : p.id # u}
    /\ reports' = OnDeleteCascade(u)
    /\ UNCHANGED <<catalog, nextId, now, catalogEdits, inserted, nowMs, objects,
                   uploads, uiVars>>

\* an insert into public.reports by a client, and its record in the history
Insert(caller, payload, via) ==
    LET row == NewRow(payload, nextId)
    IN  /\ reports' = DbInsert(caller, payload)
        /\ IF InsertAccepted(caller, row)
              THEN /\ nextId' = nextId + 1
                   /\ inserted' = inserted @@
                          (nextId :> [ by |-> caller, via |-> via, row |-> row,
                                       catalogFine |-> CatalogFine(row.violation_type) ])
              ELSE UNCHANGED <<nextId, inserted>>
        /\ UNCHANGED <<authUsers, profiles, catalog, now, catalogEdits, nowMs, objects,
                       uploads, uiVars>>

\* createReport: getUser() must return a user; the fine lookup and the insert
CreateReport(caller, violationType, latitude, longitude, plateNumber) ==
    /\ caller \in authUsers
    /\ Insert(caller,
              CreateReportPayload(caller, violationType, latitude, longitude, plateNumber),
              "createReport")

\* from('reports').insert(payload) issued by a signed-in client directly
DirectInsert(caller, payload) ==
    /\ caller \in authUsers
    /\ Insert(caller, payload, "insert")

\* from('reports').update(patch).eq('id', id) issued by a signed-in client
OwnerUpdate(caller, id, patch) ==
    /\ caller \in authUsers
    /\ reports' = DbUpdate(caller, id, patch)
    /\ UNCHANGED <<authUsers, profiles, catalog, nextId, now, catalogEdits, inserted,
                   nowMs, objects, uploads, uiVars>>

\* uploadPhoto(file, userId) as handleSubmit calls it, with the id of the
\* signed-in user: upload(fileName, file) without upsert refuses a path
\* that holds an object
UploadPhoto(caller, file) ==
    LET path == UploadPath(caller, nowMs, file)
        free == path \notin DOMAIN objects
    IN  /\ caller \in authUsers
        /\ uploads' = Append(uploads, [by |-> caller, file |-> file, path |-> path,
                                       written |-> free])
        /\ IF free THEN objects' = objects @@ (path :> Len(uploads) + 1)
                   ELSE UNCHANGED objects
        /\ UNCHANGED <<authUsers, profiles, catalog, reports, nextId, now, catalogEdits,
                       inserted, nowMs, uiVars>>

\* a millisecond passes
TickMs ==
    /\ nowMs' = nowMs + 1
    /\ UNCHANGED <<authUsers, profiles, catalog, reports, nextId, now, catalogEdits,
                   inserted, objects, uploads, uiVars>>

\* time passes: the clock moves to a later instant
Tick(t) ==
    /\ t > now
    /\ now' = t
    /\ UNCHANGED <<authUsers, profiles, catalog, reports, nextId, catalogEdits,
                   inserted, nowMs, objects, uploads, uiVars>>

\* the table owner changes the fine of a catalog row (clients have no write
\* policy on violation_types)
AdminSetFine(kind, fine) ==
    /\ catalogEdits < MaxCatalogEdits
    /\ kind \in DOMAIN catalog
    /\ catalog[kind] # fine
    /\ catalog' = [catalog EXCEPT ![kind] = fine]
    /\ catalogEdits' = catalogEdits + 1
    /\ UNCHANGED <<authUsers, profiles, reports, nextId, now, inserted, nowMs, objects,
                   uploads, uiVars>>

\* the moderation process decides a pending report
ModeratorReview(id, decision) ==
    /\ \E r \in reports :
          /\ r.id = id
          /\ r.status = Some("pending")
          /\ reports' = (reports \ {r}) \cup {[r EXCEPT !.status = Some(decision)]}
    /\ UNCHANGED <<authUsers, profiles, catalog, nextId, now, catalogEdits, inserted,
                   nowMs, objects, uploads, uiVars>>

\* the moderation process marks an approved report as paid out
ModeratorPayOut(id) ==
    /\ \E r \in reports :
          /\ r.id = id
          /\ r.status = Some("approved")
          /\ ~r.paid_out
          /\ reports' = (reports \ {r}) \cup
                          {[r EXCEPT !.paid_out = TRUE, !.paid_out_at = Some(now)]}
    /\ UNCHANGED <<authUsers, profiles, catalog, nextId, now, catalogEdits, inserted,
                   nowMs, objects, uploads, uiVars>>

-----------------------------------------------------------------------------
(* page.js: sign-in, sign-out and loadUserData *)

\* the identity the requests of the browser carry: the session's user, or
\* nobody
SessionCaller == IF session = NULL THEN Anon ELSE CHOOSE u \in session : TRUE

\* an async call in flight.  proc is the function, pc where it waits, user
\* its userId argument (or the user of its closure); the other fields are
\* its locals, NULL where the function has none
Task(proc, pc, user) ==
    [ proc |-> proc, pc |-> pc, user |-> user, data |-> NULL, violation |-> NULL,
      file |-> NULL, location |-> NULL, plate |-> "", photoUrl |-> NULL,
      pass |-> 0, capturePos |-> NULL ]

\* loadUserData(userId) as it is called, before its first await returns
LoadUserDataCall(userId) == Task("loadUserData", "start", userId)

\* signIn succeeds for a principal; onAuthStateChange then calls
\* setUser(session.user) and loadUserData(session.user.id)
SignIn(u) ==
    /\ u \in authUsers
    /\ session = NULL /\ ui.user = NULL
    /\ uiHist.signIns < MaxSignIns
    /\ session' = Some(u)
    /\ ui' = [ui EXCEPT !.user = Some(u)]
    /\ tasks' = tasks \cup {LoadUserDataCall(u)}
    /\ uiHist' = [uiHist EXCEPT !.signIns = @ + 1, !.signedOut = FALSE]
    /\ UNCHANGED <<authUsers, profiles, catalog, reports, nextId, now, catalogEdits,
                   inserted, nowMs, objects, uploads>>

\* loadUserData: getUserReports(userId) is answered for the session the
\* request carries
LoadFetchReports(t) ==
    /\ t \in tasks /\ t.proc = "loadUserData" /\ t.pc = "start"
    /\ tasks' = (tasks \ {t}) \cup
                 {[t EXCEPT !.pc = "gotReports",
                            !.data = GetUserReports(SessionCaller, t.user, DefaultLimit)]}
    /\ UNCHANGED <<authUsers, profiles, catalog, reports, nextId, now, catalogEdits,
                   inserted, nowMs, objects, uploads, session, ui, uiHist>>

\* loadUserData resumes: if (reportsData) setReports(reportsData), an array
\* being truthy also when empty; then calculateUserStats(userId) is called
\* and answered for the session its request carries
LoadSetReports(t) ==
    /\ t \in tasks /\ t.proc = "loadUserData" /\ t.pc = "gotReports"
    /\ ui' = [ui EXCEPT !.reports = t.data]
    /\ tasks' = (tasks \ {t}) \cup
                 {[t EXCEPT !.pc = "gotStats",
                            !.data = Some(calculateUserStats(SessionCaller, t.user))]}
    /\ UNCHANGED <<authUsers, profiles, catalog, reports, nextId, now, catalogEdits,
                   inserted, nowMs, objects, uploads, session, uiHist>>

\* loadUserData resumes: if (statsData) setStats(statsData)
LoadSetStats(t) ==
    /\ t \in tasks /\ t.proc = "loadUserData" /\ t.pc = "gotStats"
    /\ ui' = [ui EXCEPT !.stats = t.data]
    /\ tasks' = tasks \ {t}
    /\ UNCHANGED <<authUsers, profiles, catalog, reports, nextId, now, catalogEdits,
                   inserted, nowMs, objects, uploads, session, uiHist>>

\* handleSignOut is called (the Sign Out button of the settings tab):
\* signOut() ends the session, and onAuthStateChange calls setUser(null)
HandleSignOut ==
    /\ ui.user # NULL /\ session # NULL
    /\ \A t \in tasks : t.proc # "handleSignOut"
    /\ session' = NULL
    /\ ui' = [ui EXCEPT !.user = NULL]
    /\ tasks' = tasks \cup {Task("handleSignOut", "signedOut", SessionCaller)}
    /\ UNCHANGED <<authUsers, profiles, catalog, reports, nextId, now, catalogEdits,
                   inserted, nowMs, objects, uploads, uiHist>>

\* handleSignOut resumes after await signOut(): setUser(null),
\* setReports([]), setStats(null)
SignOutDone(t) ==
    /\ t \in tasks /\ t.proc = "handleSignOut"
    /\ ui' = [ui EXCEPT !.user = NULL, !.reports = {}, !.stats = NULL]
    /\ tasks' = tasks \ {t}
    /\ uiHist' = [uiHist EXCEPT !.signedOut = (session = NULL)]
    /\ UNCHANGED <<authUsers, profiles, catalog, reports, nextId, now, catalogEdits,
                   inserted, nowMs, objects, uploads, session>>

-----------------------------------------------------------------------------
(* page.js: capture, review and handleSubmit *)

\* handleImageUpload: a file was chosen on the home screen.  setUploadedFile,
\* the reader shows the violation screen, and getCurrentPosition calls
\* setLocation when it obtains a position (pos), nothing when it does not
HandleImageUpload(file, pos) ==
    /\ ui.user # NULL /\ ui.screen = "home"
    /\ uiHist.captures < MaxCaptures
    /\ ui' = [ui EXCEPT !.uploadedFile = Some(file),
                        !.screen = "select-violation",
                        !.location = IF pos = NULL THEN @ ELSE pos]
    /\ uiHist' = [uiHist EXCEPT !.captures = @ + 1, !.capturePos = pos]
    /\ UNCHANGED <<authUsers, profiles, catalog, reports, nextId, now, catalogEdits,
                   inserted, nowMs, objects, uploads, session, tasks>>

\* the Cancel button: setScreen('home'); setUploadedImage(null)
Cancel ==
    /\ ui.user # NULL /\ ui.screen = "select-violation"
    /\ ui' = [ui EXCEPT !.screen = "home"]
    /\ UNCHANGED <<authUsers, profiles, catalog, reports, nextId, now, catalogEdits,
                   inserted, nowMs, objects, uploads, session, tasks, uiHist>>

\* a violation button: setSelectedViolation(v.id)
SelectViolation(k) ==
    /\ ui.user # NULL /\ ui.screen = "select-violation"
    /\ k \in DOMAIN catalog
    /\ ui' = [ui EXCEPT !.selectedViolation = Some(k)]
    /\ UNCHANGED <<authUsers, profiles, catalog, reports, nextId, now, catalogEdits,
                   inserted, nowMs, objects, uploads, session, tasks, uiHist>>

\* the Continue button, rendered when a violation is selected
Continue ==
    /\ ui.user # NULL /\ ui.screen = "select-violation"
    /\ ui.selectedViolation # NULL
    /\ ui' = [ui EXCEPT !.screen = "review"]
    /\ UNCHANGED <<authUsers, profiles, catalog, reports, nextId, now, catalogEdits,
                   inserted, nowMs, objects, uploads, session, tasks, uiHist>>

\* the number of reports the page has created or is creating
Submissions == (nextId - 1) + Cardinality({t \in tasks : t.proc = "handleSubmit" /\ t.pc # "timer"})

\* handleSubmit is called by the Submit button of the review screen, which
\* is disabled while isSubmitting.  It returns at once unless user,
\* selectedViolation and uploadedFile are set; else setIsSubmitting(true)
\* and uploadPhoto is awaited, the state of this render in its closure
HandleSubmit ==
    /\ ui.user # NULL /\ ui.screen = "review" /\ ~ui.isSubmitting
    /\ Submissions < MaxUiReports
    /\ IF ui.selectedViolation = NULL \/ ui.uploadedFile = NULL
          THEN UNCHANGED <<ui, tasks>>
          ELSE /\ ui' = [ui EXCEPT !.isSubmitting = TRUE]
               /\ tasks' = tasks \cup
                     {[Task("handleSubmit", "upload", CHOOSE u \in ui.user : TRUE)
                          EXCEPT !.violation = ui.selectedViolation,
                                 !.file = ui.uploadedFile,
                                 !.location = ui.location,
                                 !.plate = ui.plateNumber,
                                 !.pass = uiHist.captures,
                                 !.capturePos = uiHist.capturePos]}
    /\ UNCHANGED <<authUsers, profiles, catalog, reports, nextId, now, catalogEdits,
                   inserted, nowMs, objects, uploads, session, uiHist>>

\* getPublicUrl(fileName): the URL of the object in the public bucket
GetPublicUrl(path) == <<"violation-photos">> \o path

\* handleSubmit: uploadPhoto(uploadedFile, user.id) returns.  The upload
\* fails when the storage service refuses it (fault) or the path is taken;
\* the error is logged and photoUrl stays null.  A millisecond has passed
\* since any earlier upload of this page
SubmitUpload(t, fault) ==
    LET path == UploadPath(t.user, nowMs, CHOOSE f \in t.file : TRUE)
        stored == ~fault /\ path \notin DOMAIN objects
    IN  /\ t \in tasks /\ t.proc = "handleSubmit" /\ t.pc = "upload"
        /\ uploads' = Append(uploads, [by |-> t.user, file |-> CHOOSE f \in t.file : TRUE,
                                       path |-> path, written |-> stored])
        /\ IF stored THEN objects' = objects @@ (path :> Len(uploads) + 1)
                     ELSE UNCHANGED objects
        /\ nowMs' = nowMs + 1
        /\ tasks' = (tasks \ {t}) \cup
                     {[t EXCEPT !.pc = "create",
                                !.photoUrl = IF stored THEN Some(GetPublicUrl(path))
                                                       ELSE NULL]}
        /\ UNCHANGED <<authUsers, profiles, catalog, reports, nextId, now, catalogEdits,
                       inserted, session, ui, uiHist>>

\* the object createReport inserts when handleSubmit calls it: latitude and
\* longitude are location?.lat and location?.lng, photo_url is photoUrl
SubmitPayload(caller, t) ==
    [photo_url |-> t.photoUrl] @@
    CreateReportPayload(caller, CHOOSE k \in t.violation : TRUE,
                        {pt[1] : pt \in t.location}, {pt[2] : pt \in t.location},
                        Some(t.plate))

\* handleSubmit: createReport returns.  It throws without a session, and
\* handleSubmit throws its error; both end in the alert of the catch block.
\* Else setShowSuccess(true) and the timer of 3000 ms is set.  finally:
\* setIsSubmitting(false)
SubmitCreate(t) ==
    LET caller == SessionCaller
        payload == SubmitPayload(caller, t)
        row == NewRow(payload, nextId)
        ok == session # NULL /\ InsertAccepted(caller, row)
    IN  /\ t \in tasks /\ t.proc = "handleSubmit" /\ t.pc = "create"
        /\ IF ok
              THEN /\ reports' = reports \cup {row}
                   /\ nextId' = nextId + 1
                   /\ inserted' = inserted @@
                          (nextId :> [ by |-> caller, via |-> "createReport", row |-> row,
                                       catalogFine |-> CatalogFine(row.violation_type) ])
                   /\ uiHist' = [uiHist EXCEPT !.submitted = @ @@
                          (nextId :> [pass |-> t.pass, capturePos |-> t.capturePos,
                                      photoUrl |-> t.photoUrl])]
                   /\ ui' = [ui EXCEPT !.showSuccess = TRUE, !.isSubmitting = FALSE]
                   /\ tasks' = (tasks \ {t}) \cup {[t EXCEPT !.pc = "timer"]}
              ELSE /\ ui' = [ui EXCEPT !.isSubmitting = FALSE]
                   /\ tasks' = tasks \ {t}
                   /\ UNCHANGED <<reports, nextId, inserted, uiHist>>
        /\ UNCHANGED <<authUsers, profiles, catalog, now, catalogEdits, nowMs, objects,
                       uploads, session>>

\* the timer of handleSubmit fires after 3000 ms: the form is reset and
\* loadUserData(user.id) is called, user being that of the closure
SubmitTimer(t) ==
    /\ t \in tasks /\ t.proc = "handleSubmit" /\ t.pc = "timer"
    /\ ui' = [ui EXCEPT !.showSuccess = FALSE, !.screen = "home",
                        !.uploadedFile = NULL, !.selectedViolation = NULL,
                        !.plateNumber = ""]
    /\ tasks' = (tasks \ {t}) \cup {LoadUserDataCall(t.user)}
    /\ UNCHANGED <<authUsers, profiles, catalog, reports, nextId, now, catalogEdits,
                   inserted, nowMs, objects, uploads, session, uiHist>>

-----------------------------------------------------------------------------
(* Inputs *)

PlateInputs == {Some("abc-1234")}

\* payloads of direct inserts: with and without a status of the client's choice
StatusInputs == {NULL, Some("approved"), Some("bogus")}

InsertPayloads ==
    {[user_id |-> u, violation_type |-> "bike"] : u \in Users}
    \cup {[user_id |-> u, violation_type |-> "bike", status |-> s] :
             u \in Users, s \in StatusInputs}

\* patches of owner updates: one column group each
UpdatePatches ==
    {[reward_amount |-> Some(9999000)]}
    \cup {[paid_out |-> TRUE, paid_out_at |-> Some(0)]}
    \cup {[status |-> s] : s \in {NULL, Some("approved")}}
    \cup {[user_id |-> u] : u \in Users}

ReportIds == 1 .. (nextId - 1)

Next ==
    \/ \E u \in Users : SignUp(u)
    \/ \E u \in Users, k \in KindInputs, p \in PlateInputs :
          Cardinality(reports) < MaxReports /\ CreateReport(u, k, NULL, NULL, p)
    \/ \E u \in Users, payload \in InsertPayloads :
          Cardinality(reports) < MaxReports /\ DirectInsert(u, payload)
    \/ \E u \in Users, id \in ReportIds, patch \in UpdatePatches : OwnerUpdate(u, id, patch)
    \/ \E k \in EditKinds, f \in FineValues : AdminSetFine(k, f)
    \/ \E id \in ReportIds, d \in {"approved", "rejected"} : ModeratorReview(id, d)
    \/ \E id \in ReportIds : ModeratorPayOut(id)

Spec == Init /\ [][Next]_vars

-----------------------------------------------------------------------------
(* Access control: the ledger under every client and moderation operation,  *)
(* with the catalog as seeded                                               *)

AccessKinds == {"bike", "ghost"}

\* the patches that can change a row: a patch of user_id is refused or
\* rewrites the owner's own id, and leaves the table as it is either way
AccessPatches == {p \in UpdatePatches : ~Has(p, "user_id")}

AccessNext ==
    \/ \E u \in Users : SignUp(u)
    \/ \E u \in Users, k \in AccessKinds, p \in PlateInputs :
          Cardinality(reports) < MaxAccessReports /\ CreateReport(u, k, NULL, NULL, p)
    \/ \E u \in Users, payload \in InsertPayloads :
          Cardinality(reports) < MaxAccessReports /\ DirectInsert(u, payload)
    \/ \E u \in Users, id \in ReportIds, patch \in AccessPatches : OwnerUpdate(u, id, patch)
    \/ \E id \in ReportIds, d \in {"approved", "rejected"} : ModeratorReview(id, d)
    \/ \E id \in ReportIds : ModeratorPayOut(id)

AccessSpec == Init /\ [][AccessNext]_vars

-----------------------------------------------------------------------------
(* The aggregates: the ledger under submissions and reviews only, with more *)
(* reports per identity                                                     *)

StatsInsertPayloads ==
    {[user_id |-> u, violation_type |-> "bike"] : u \in Users}
    \cup {[user_id |-> u, violation_type |-> "bike", status |-> NULL] : u \in Users}

StatsNext ==
    \/ \E u \in Users : SignUp(u)
    \/ \E u \in Users, k \in KindInputs, p \in PlateInputs :
          Cardinality(reports) < MaxStatsReports /\ CreateReport(u, k, NULL, NULL, p)
    \/ \E u \in Users, payload \in StatsInsertPayloads :
          Cardinality(reports) < MaxStatsReports /\ DirectInsert(u, payload)
    \/ \E id \in ReportIds, d \in {"approved", "rejected"} : ModeratorReview(id, d)

StatsSpec == Init /\ [][StatsNext]_vars

-----------------------------------------------------------------------------
(* The specification of duplicate detection: reports with plates and
   coordinates, submitted at different instants *)

\* the identity that submits; the other one signs up and only asks
DupSubmitters == {"alice"}
\* plates as typed by the user, and no plate
DupPlates == {NULL, Some("abc-1234")}
\* the kind of the stored reports, and the kinds a check asks about
DupKinds == {"bike"}
QueryKinds == {"bike", "hydrant"}
\* no position, and one position <<latitude, longitude>>
DupPoints == {<<NULL, NULL>>, <<Some(407000), Some(0 - 740000)>>}
\* the owner sets the plate of its report, typed in lower case
PlatePatches == {[plate_number |-> Some("abc-1234")]}
\* the instants the clock moves to: 1 h 59 min, 2 h, 2 h 1 min, 2 h 2 min
Instants == {119, 120, 121, 122}

DupNext ==
    \/ \E u \in Users : SignUp(u)
    \/ \E u \in DupSubmitters, k \in DupKinds, pt \in DupPoints, p \in DupPlates :
          Cardinality(reports) < MaxDupReports /\ CreateReport(u, k, pt[1], pt[2], p)
    \/ \E u \in Users, id \in ReportIds, patch \in PlatePatches : OwnerUpdate(u, id, patch)
    \/ \E t \in Instants : t <= MaxClock /\ Tick(t)

DupSpec == Init /\ [][DupNext]_vars

-----------------------------------------------------------------------------
(* The specification of identities: sign-up with and without a fault of the
   provisioning insert, provisioning run again, profile updates, deletion of
   a principal, and reports whose owner the owner tries to change *)

FullNames == {"Ann", "Bea"}
ProfilePatches == {[full_name |-> "Bea"]} \cup {[id |-> u] : u \in Users}
OwnerPatches == {[user_id |-> u] : u \in Users}

IdentityNext ==
    \/ \E u \in Users, n \in FullNames, fault \in BOOLEAN : SignUpWith(u, n, fault)
    \/ \E u \in Users, n \in FullNames : RerunProvisioning(u, n)
    \/ \E a \in Users, u \in Users, updates \in ProfilePatches : UpdateProfile(a, u, updates)
    \/ \E u \in Users : DeleteUser(u)
    \/ \E u \in Users, p \in PlateInputs :
          nextId <= MaxIdentityReports /\ CreateReport(u, "bike", NULL, NULL, p)
    \/ \E u \in Users, id \in ReportIds, patch \in OwnerPatches : OwnerUpdate(u, id, patch)

IdentitySpec == Init /\ [][IdentityNext]_vars

-----------------------------------------------------------------------------
(* The specification of evidence uploads *)

FileNames == {"curb.jpg", "lane.jpg", "scan.final.png", "IMG_0001"}

UploadNext ==
    \/ \E u \in Users : SignUp(u)
    \/ \E u \in Users, f \in FileNames : Len(uploads) < MaxUploads /\ UploadPhoto(u, f)
    \/ nowMs < MaxMs /\ TickMs

UploadSpec == Init /\ [][UploadNext]_vars

-----------------------------------------------------------------------------
(* The specification of the page: one browser, in which a principal signs
   in and out, captures, reviews and submits, while its async calls are in
   flight *)

UiUsers == {"alice"}
UiKinds == {"bike"}
UiFiles == {"curb.jpg"}
\* what getCurrentPosition obtains: nothing, or a position
UiPositions == {NULL, Some(<<407000, 0 - 740000>>)}

UiNext ==
    \/ \E u \in UiUsers : SignUp(u)
    \/ \E u \in UiUsers : SignIn(u)
    \/ HandleSignOut
    \/ \E t \in tasks : SignOutDone(t)
    \/ \E t \in tasks : LoadFetchReports(t)
    \/ \E t \in tasks : LoadSetReports(t)
    \/ \E t \in tasks : LoadSetStats(t)
    \/ \E f \in UiFiles, pos \in UiPositions : HandleImageUpload(f, pos)
    \/ Cancel
    \/ \E k \in UiKinds : SelectViolation(k)
    \/ Continue
    \/ HandleSubmit
    \/ \E t \in tasks, fault \in BOOLEAN : SubmitUpload(t, fault)
    \/ \E t \in tasks : SubmitCreate(t)
    \/ \E t \in tasks : SubmitTimer(t)

UiSpec == Init /\ [][UiNext]_vars

-----------------------------------------------------------------------------
(* Claims *)

Decided == {Some("approved"), Some("rejected")}

Own(u) == {r \in reports : r.user_id = u}

\* C1: a report created by createReport for a kind of the catalog has
\* fine_amount equal to the catalog fine at insert time and reward_amount
\* equal to round(fine x 0.10, 2), for every fine the catalog can hold.
C1_RewardOfCatalogFine ==
    \A id \in DOMAIN inserted :
        LET h == inserted[id]
        IN  (h.via = "createReport" /\ h.catalogFine # NULL) =>
               /\ h.row.fine_amount = h.catalogFine
               /\ h.row.reward_amount = {calculate_reward(f) : f \in h.catalogFine}

\* C2: a report keeps the fine_amount and reward_amount it was inserted
\* with, and reward_amount = round(fine_amount x 0.10, 2), whatever
\* operations follow.
C2_AmountsFrozen ==
    \A r \in reports :
        /\ r.fine_amount = inserted[r.id].row.fine_amount
        /\ r.reward_amount = inserted[r.id].row.reward_amount
        /\ r.reward_amount = {calculate_reward(f) : f \in r.fine_amount}

\* C3: no insert accepted from a client, through createReport or directly
\* under the insert policy, yields a row whose status is approved or rejected.
C3_InsertedNotDecided ==
    \A id \in DOMAIN inserted : inserted[id].row.status \notin Decided

\* the patches that touch neither status nor user_id
PlainPatches == {p \in UpdatePatches : ~Has(p, "status") /\ ~Has(p, "user_id")}

\* C4: the owner reads its report and, while the report is pending, its
\* update is applied; once the report is approved or rejected every update
\* by the owner leaves the table unchanged.
C4_OwnerUpdatesOnlyWhilePending ==
    \A u \in authUsers : \A r \in Own(u) :
        /\ r \in GetReportById(u, r.id)
        /\ r.status = Some("pending") =>
              \A p \in PlainPatches :
                  DbUpdate(u, r.id, p) = (reports \ {r}) \cup {Patched(r, p)}
        /\ r.status \in Decided =>
              \A p \in UpdatePatches : DbUpdate(u, r.id, p) = reports

\* a decided report that its owner had updated while it was pending, and
\* whose owner's update is now without effect
C4_Witness ==
    \E r \in reports :
        /\ r.status \in Decided
        /\ r.user_id \in authUsers
        /\ r.reward_amount # inserted[r.id].row.reward_amount
        /\ \A p \in UpdatePatches : DbUpdate(r.user_id, r.id, p) = reports

\* C5: identity A never reads, inserts or updates a report owned by another
\* identity B: every read of getUserReports, getReportById and checkDuplicate
\* returns rows of A only, an insert naming B is refused, an update of a row
\* of B changes nothing and no update hands a row to another identity.
C5_NoCrossIdentityAccess ==
    /\ \A a \in Principals :
          /\ \A b \in Users : GetUserReports(a, b, DefaultLimit) \subseteq Own(a)
          /\ \A id \in ReportIds : GetReportById(a, id) \subseteq Own(a)
          /\ \A p \in {NULL, Some("abc-1234")}, k \in {"bike", "hydrant"} :
                CheckDuplicateRows(a, p, NULL, NULL, k) \subseteq Own(a)
          /\ \A payload \in InsertPayloads :
                payload.user_id # a => DbInsert(a, payload) = reports
          /\ \A r \in reports, p \in UpdatePatches :
                LET after == DbUpdate(a, r.id, p)
                IN  /\ r.user_id # a => after = reports
                    /\ \A r2 \in after : r2.id = r.id => r2.user_id = r.user_id
    /\ \A r \in reports :
          /\ inserted[r.id].by = r.user_id
          /\ inserted[r.id].row.user_id = r.user_id

\* both identities own a report, one of them updated by its owner, and
\* neither identity gets the other's report from any read
C5_Witness ==
    /\ Own("alice") # {}
    /\ Own("bob") # {}
    /\ \E r \in Own("bob") : r.reward_amount # inserted[r.id].row.reward_amount
    /\ GetUserReports("alice", "bob", DefaultLimit) = {}
    /\ \A r \in Own("bob") : GetReportById("alice", r.id) = {}
    /\ GetUserReports("bob", "bob", DefaultLimit) = Own("bob")

\* a step of a client: createReport, a direct insert or an owner update
ClientWrite ==
    \E u \in Users :
        \/ \E k \in KindInputs, p \in PlateInputs : CreateReport(u, k, NULL, NULL, p)
        \/ \E payload \in InsertPayloads : DirectInsert(u, payload)
        \/ \E id \in ReportIds, patch \in UpdatePatches : OwnerUpdate(u, id, patch)

\* C6: no operation of a client changes a report's status to approved or
\* rejected, or changes its paid_out flag or paid_out_at timestamp.
C6_OnlyModeratorDecidesAndPays ==
    [][ClientWrite =>
          \A r \in reports : \A r2 \in reports' :
              r2.id = r.id =>
                 /\ r2.paid_out = r.paid_out
                 /\ r2.paid_out_at = r.paid_out_at
                 /\ (r2.status # r.status => r2.status \notin Decided)]_vars

\* C7: every report's status is always one of pending, approved, rejected,
\* and a status changes only from pending to approved or rejected.
C7_StatusLifecycle ==
    /\ [](\A r \in reports : r.status \in {Some(s) : s \in StatusValues})
    /\ [][\A r \in reports : \A r2 \in reports' :
             (r2.id = r.id /\ r2.status # r.status) =>
                (r.status = Some("pending") /\ r2.status \in Decided)]_vars

\* C8: for distinct identities A and B, getUserStats called by A with any
\* userId never returns the aggregate row of B.
C8_OwnAggregateOnly ==
    \A a \in authUsers : \A b \in Users :
        \A s \in GetUserStats(a, b) : s.user_id = a

RECURSIVE SumReward(_)
\* the sum of reward_amount over a set of rows, absent rewards left out
SumReward(rows) ==
    IF rows = {} THEN 0
    ELSE LET r == CHOOSE x \in rows : TRUE
         IN  (IF r.reward_amount = NULL THEN 0 ELSE CHOOSE v \in r.reward_amount : TRUE)
             + SumReward(rows \ {r})

WithStatus(u, s) == {r \in Own(u) : r.status = Some(s)}

\* C9: for every identity the user_stats row holds total = number of its
\* reports, approved/pending/rejected = number of its reports with that
\* status, total_earned = sum of reward_amount over its approved reports and
\* pending_earnings = that sum over its pending reports (0 when none).
C9_AggregateCountsAndSums ==
    \A u \in ProfileIds :
        LET s == UserStatsRow(u)
        IN  /\ GetUserStats(u, u) = {s}
            /\ s.total_reports = Cardinality(Own(u))
            /\ s.approved_reports = Cardinality(WithStatus(u, "approved"))
            /\ s.pending_reports = Cardinality(WithStatus(u, "pending"))
            /\ s.rejected_reports = Cardinality(WithStatus(u, "rejected"))
            /\ s.total_earned = SumReward(WithStatus(u, "approved"))
            /\ s.pending_earnings = SumReward(WithStatus(u, "pending"))

\* one approved (17.50), one pending (11.50), one rejected report: the row
\* is total 3, 1/1/1, total_earned 17.50, pending_earnings 11.50
C9_Witness ==
    \E u \in ProfileIds :
        /\ \E r \in WithStatus(u, "approved") : r.reward_amount = Some(1750)
        /\ \E r \in WithStatus(u, "pending") : r.reward_amount = Some(1150)
        /\ WithStatus(u, "rejected") # {}
        /\ LET s == UserStatsRow(u)
           IN  /\ s.total_reports = 3
               /\ s.approved_reports = 1 /\ s.pending_reports = 1 /\ s.rejected_reports = 1
               /\ s.total_earned = 1750 /\ s.pending_earnings = 1150

\* C10: for every identity with at least one report the success rate, in the
\* user_stats view and in calculateUserStats, is approved / total x 100
\* rounded to one decimal place.
C10_SuccessRateOneDecimal ==
    \A u \in authUsers \cap ProfileIds :
        LET total == Cardinality(Own(u))
            approved == Cardinality(WithStatus(u, "approved"))
        IN  total > 0 =>
               /\ UserStatsRow(u).success_rate = RoundDiv(approved * 1000, total)
               /\ calculateUserStats(u, u).success_rate = RoundDiv(approved * 1000, total)

\* the aggregate of an identity without reports
ZeroStats ==
    [ total_reports |-> 0, approved_reports |-> 0, pending_reports |-> 0,
      rejected_reports |-> 0, total_earned |-> 0, pending_earnings |-> 0,
      success_rate |-> 0 ]

\* C11: for an identity with zero reports the aggregate is still produced,
\* by the user_stats view and by calculateUserStats, with total 0, every
\* count and sum 0 and success rate exactly 0.
C11_ZeroReportsZeroRate ==
    \A u \in authUsers \cap ProfileIds :
        Own(u) = {} =>
           /\ GetUserStats(u, u) = {[user_id |-> u] @@ ZeroStats}
           /\ calculateUserStats(u, u) = ZeroStats

\* an identity without reports gets its all-zero row while the other
\* identity has an approved report and a success rate of 100.0
C11_Witness ==
    \E u \in authUsers \cap ProfileIds, v \in ProfileIds :
        /\ Own(u) = {}
        /\ GetUserStats(u, u) = {[user_id |-> u] @@ ZeroStats}
        /\ WithStatus(v, "approved") = Own(v) /\ Own(v) # {}
        /\ UserStatsRow(v).success_rate = 1000

\* the plates, positions and kinds a duplicate check is asked about
QueryPlates == {NULL, Some("abc-1234"), Some("ABC-1234"), Some("XYZ-5678")}
\* no position, the position of DupPoints, and positions 0.0009 and 0.001
\* degree north and 0.001 degree west of it
QueryPoints ==
    {<<NULL, NULL>>, <<Some(407000), Some(0 - 740000)>>, <<Some(407009), Some(0 - 740000)>>,
     <<Some(407010), Some(0 - 740000)>>, <<Some(407000), Some(0 - 740010)>>}

\* report r has the plate asked about, after upper-casing the query
SamePlate(r, q) == r.plate_number # NULL /\ r.plate_number = UpperOpt(q)

\* C12: the duplicate check returns true whenever a stored report (one the
\* caller owns) has the same plate after upper-casing the queried plate,
\* the same kind, coordinates within 0.001 degree in each axis and was
\* submitted less than 2 hours before; for checkDuplicate and for
\* check_duplicate_report.
C12_DuplicateDetected ==
    \A a \in authUsers : \A r \in Own(a) :
        \A q \in QueryPlates, pt \in QueryPoints :
            ( /\ SamePlate(r, q)
              /\ Near(r.latitude, pt[1]) /\ Near(r.longitude, pt[2])
              /\ now - r.reported_at < 2 * 60 )
            => /\ checkDuplicate(a, q, pt[1], pt[2], r.violation_type)
               /\ check_duplicate_report(a, q, pt[1], pt[2], r.violation_type)

\* C13: the duplicate check returns false when every stored report was
\* submitted more than 2 hours before the check, or has a different kind,
\* or has a different plate; for checkDuplicate and check_duplicate_report.
C13_NotDuplicate ==
    \A a \in Principals :
        \A q \in QueryPlates, k \in QueryKinds :
            (\A r \in reports :
                \/ r.plate_number = NULL
                \/ UpperOpt(r.plate_number) # UpperOpt(q)
                \/ r.violation_type # k
                \/ now - r.reported_at > 2 * 60)
            => \A pt \in QueryPoints :
                  /\ ~checkDuplicate(a, q, pt[1], pt[2], k)
                  /\ ~check_duplicate_report(a, q, pt[1], pt[2], k)

\* a report of the caller submitted 2 h 1 min ago is not a duplicate of a
\* query for its plate, kind and position, and one with another kind is not
\* a duplicate although it was submitted within the window
C13_Witness ==
    \E a \in authUsers : \E r \in Own(a) :
        /\ r.plate_number = Some("ABC-1234")
        /\ r.latitude # NULL
        /\ now - r.reported_at = 2 * 60 + 1
        /\ Own(a) = {r}
        /\ ~checkDuplicate(a, Some("abc-1234"), r.latitude, r.longitude, r.violation_type)
        /\ ~check_duplicate_report(a, r.plate_number, r.latitude, r.longitude,
                                   r.violation_type)

\* C14: the position condition applies exactly when a position is supplied:
\* with coordinates supplied, a check whose only reports of that plate and
\* kind in the window lie 0.001 degree or more away returns false; with no
\* coordinates supplied, a report of that plate and kind in the window makes
\* it return true.  The plate is queried in upper case.
C14_PositionExactlyWhenSupplied ==
    \A a \in authUsers : \A r \in Own(a) :
        (r.plate_number # NULL /\ now - r.reported_at < 2 * 60) =>
           /\ checkDuplicate(a, r.plate_number, NULL, NULL, r.violation_type)
           /\ check_duplicate_report(a, r.plate_number, NULL, NULL, r.violation_type)
           /\ \A pt \in QueryPoints \ {<<NULL, NULL>>} :
                 (\A x \in Own(a) :
                     (x.plate_number = r.plate_number /\ x.violation_type = r.violation_type)
                     => /\ x.latitude # NULL /\ x.longitude # NULL
                        /\ ~(Near(x.latitude, pt[1]) /\ Near(x.longitude, pt[2])))
                 => /\ ~checkDuplicate(a, r.plate_number, pt[1], pt[2], r.violation_type)
                    /\ ~check_duplicate_report(a, r.plate_number, pt[1], pt[2],
                                               r.violation_type)

\* C15: createReport performs no duplicate check: a submission by a
\* signed-in identity for a kind of the catalog is inserted whatever reports
\* exist, also when checkDuplicate or check_duplicate_report answers true,
\* and the rows already stored stay.
C15_InsertDespiteDuplicate ==
    \A u \in authUsers \cap ProfileIds :
        \A k \in DupKinds, pt \in DupPoints, p \in DupPlates :
            LET payload == CreateReportPayload(u, k, pt[1], pt[2], p)
            IN  /\ NewRow(payload, nextId) \notin reports
                /\ DbInsert(u, payload) = reports \cup {NewRow(payload, nextId)}

\* two stored reports of one identity with the same plate, kind and
\* position, the second inserted by createReport while both duplicate
\* checks answered true for it
C15_Witness ==
    \E r1 \in reports, r2 \in reports :
        /\ r1.id < r2.id
        /\ r1.user_id = r2.user_id
        /\ r1.plate_number = Some("ABC-1234") /\ r2.plate_number = r1.plate_number
        /\ r1.violation_type = r2.violation_type
        /\ r1.latitude # NULL /\ r2.latitude = r1.latitude /\ r2.longitude = r1.longitude
        /\ r2.reported_at - r1.reported_at < 2 * 60
        /\ inserted[r2.id].via = "createReport"
        /\ now = r2.reported_at
        /\ checkDuplicate(r1.user_id, Some("abc-1234"), r1.latitude, r1.longitude,
                          r1.violation_type)
        /\ Cardinality(DuplicateReportRows(r1.user_id, r1.plate_number, r1.latitude,
                                           r1.longitude, r1.violation_type)) = 2

\* C16: every stored report that has a plate holds it in upper case,
\* whatever case was submitted and whatever updates its owner made.
C16_PlateUpperCase ==
    \A r \in reports : r.plate_number = UpperOpt(r.plate_number)

\* the profiles rows of principal u
ProfilesOf(u) == {p \in profiles : p.id = u}

\* C17: every authenticated principal has exactly one profiles row with its
\* id, also after a sign-up whose provisioning insert fails (the account is
\* then not created) and after provisioning is run again for an id that is
\* already provisioned; and every profiles row belongs to a principal.
C17_ProvisionedExactlyOnce ==
    /\ \A u \in authUsers : Cardinality(ProfilesOf(u)) = 1
    /\ ProfileIds \subseteq authUsers

\* a provisioned principal for which running provisioning again raises and
\* leaves its row, next to an id whose sign-up fails with its provisioning
C17_Witness ==
    \E u \in authUsers, v \in Users \ authUsers :
        /\ \E n \in FullNames :
              /\ ProfilesOf(u) = {ProfileRow(u, n)}
              /\ \A m \in FullNames \ {n} : handle_new_user(u, m, FALSE) = NULL
        /\ handle_new_user(v, "Ann", TRUE) = NULL
        /\ TriggerAborts(handle_new_user(v, "Ann", TRUE))
        /\ \E id \in DOMAIN inserted : inserted[id].by = v

\* C18: every report is owned by exactly one existing profile, the one it
\* was inserted for; no update by a signed-in identity moves a report to
\* another identity; and the reports of a deleted identity are gone.
C18_OwnerExistsAndFixed ==
    /\ \A r \in reports :
          /\ Cardinality(ProfilesOf(r.user_id)) = 1
          /\ r.user_id = inserted[r.id].row.user_id
          /\ \A a \in authUsers, patch \in OwnerPatches :
                patch.user_id # r.user_id => DbUpdate(a, r.id, patch) = reports
    /\ \A id \in DOMAIN inserted :
          inserted[id].row.user_id \notin ProfileIds => \A r \in reports : r.id # id

\* an identity that had a report was deleted and its report went with it,
\* while the report of the other identity is still there
C18_Witness ==
    \E id \in DOMAIN inserted :
        /\ inserted[id].row.user_id \notin ProfileIds
        /\ \A r \in reports : r.id # id
        /\ \E r \in reports : r.user_id \in ProfileIds /\ r.user_id \in authUsers

\* C19: createReport for a kind that is in no catalog row does not fail: it
\* persists a report of that kind with fine_amount 115, reward_amount 11.50
\* and status pending.
C19_AbsentKindFallsBack ==
    \A u \in authUsers \cap ProfileIds :
        \A k \in KindInputs \ DOMAIN catalog, p \in PlateInputs :
            \E r \in DbInsert(u, CreateReportPayload(u, k, NULL, NULL, p)) \ reports :
                /\ r.user_id = u /\ r.violation_type = k
                /\ r.fine_amount = Some(115)
                /\ r.reward_amount = Some(1150)
                /\ r.status = Some("pending")

\* C20: every upload goes to a path <id of the uploading identity>/
\* <name>.<extension>, and no two uploads, of different identities or of
\* the same one, go to the same object path.
C20_UploadPathsUnique ==
    /\ \A i \in DOMAIN uploads :
          /\ uploads[i].path[1] = uploads[i].by
          /\ uploads[i].path[3] = FileExt(uploads[i].file)
    /\ \A i \in DOMAIN uploads, j \in DOMAIN uploads :
          i # j => uploads[i].path # uploads[j].path

\* C25: calculateUserStats and the user_stats view agree: for every
\* identity, whatever reports it owns, both give the same total, per-status
\* counts, total_earned, pending_earnings and success_rate.
C25_BackupAggregateEqualsView ==
    \A u \in authUsers \cap ProfileIds :
        GetUserStats(u, u) = {[user_id |-> u] @@ calculateUserStats(u, u)}

\* C21: handleSubmit goes on only with a user, a selected violation and a
\* file; and every report the page inserted holds the URL its upload
\* returned, the object of that URL being stored.
C21_EvidenceStoredBeforeReport ==
    /\ \A t \in tasks :
          t.proc = "handleSubmit" =>
             t.user \in Users /\ t.violation # NULL /\ t.file # NULL
    /\ \A id \in DOMAIN uiHist.submitted :
          LET url == inserted[id].row.photo_url
          IN  /\ url # NULL
              /\ url = uiHist.submitted[id].photoUrl
              /\ \A x \in url : \E path \in DOMAIN objects : x = GetPublicUrl(path)

\* C22: one pass through capture and review creates at most one report: no
\* two reports the page inserted come from the same capture.
C22_OneReportPerPass ==
    \A i \in DOMAIN uiHist.submitted, j \in DOMAIN uiHist.submitted :
        i # j => uiHist.submitted[i].pass # uiHist.submitted[j].pass

\* C23: once handleSignOut has completed, and until a user signs in again,
\* the page holds no report list and no stats.
C23_SignedOutHoldsNothing ==
    uiHist.signedOut => (ui.reports = {} /\ ui.stats = NULL)

\* C24: the latitude and longitude of a report the page inserted are the
\* position obtained for its own capture, and absent when that capture
\* obtained none.
C24_PositionOfOwnCapture ==
    \A id \in DOMAIN uiHist.submitted :
        LET pos == uiHist.submitted[id].capturePos
        IN  /\ inserted[id].row.latitude = {pt[1] : pt \in pos}
            /\ inserted[id].row.longitude = {pt[2] : pt \in pos}

====
